---- MODULE Spec2Model ----
(***************************************************************************)
(* A model of google_maps_list_scraper.py: one run of                      *)
(* scrape_google_maps_list (browser set-up, navigation, readiness wait,    *)
(* scrolling, note extraction, parsing, output, result assembly, browser   *)
(* release) together with the pure text functions it calls.                *)
(*                                                                         *)
(* Text is a sequence of one-character strings.  An optional value         *)
(* (Python None or a value) is a sequence of length 0 or 1: None == <<>>,  *)
(* Some(v) == <<v>>.                                                       *)
(***************************************************************************)
EXTENDS Integers, Sequences, FiniteSets, TLC

VARIABLES pc, driver, quits, usedAfterQuit, exc, warnings,
          max_scrolls, last_height, scroll_count, cycles, readings,
          note_errors, page, notes_dict, places, df, sink, result, returned

vars == <<pc, driver, quits, usedAfterQuit, exc, warnings,
          max_scrolls, last_height, scroll_count, cycles, readings,
          note_errors, page, notes_dict, places, df, sink, result, returned>>

(***************************************************************************)
(* Bounds of the model.                                                    *)
(***************************************************************************)
MaxScrolls == 6
MaxContainers == 3
MaxUrlLen == 4
MaxDetails == 2

(***************************************************************************)
(* Optional values and Python truthiness.                                  *)
(***************************************************************************)
None == <<>>
Some(v) == <<v>>
IsNone(o) == o = <<>>
Val(o) == o[1]
\* bool(x) for x an optional text: None and '' are falsy.
Truthy(o) == Len(o) = 1 /\ Len(o[1]) > 0

(***************************************************************************)
(* Characters and text.                                                    *)
(***************************************************************************)
\* Text is over the Latin-1 characters (code points 0 to 255).
Digits == <<"0","1","2","3","4","5","6","7","8","9">>
\* The other characters for which str.isdigit() is true: the superscript
\* digits.  The regular expression \d does not match them.
SuperscriptDigits == {"²", "³", "¹"}
\* The cased letters: A to Z and the accented capitals, each with the
\* letter str.lower() gives for it.
UpperChars == <<"A","B","C","D","E","F","G","H","I","J","K","L","M",
                "N","O","P","Q","R","S","T","U","V","W","X","Y","Z",
                "À","Á","Â","Ã","Ä","Å","Æ","Ç","È","É","Ê","Ë","Ì","Í","Î",
                "Ï","Ð","Ñ","Ò","Ó","Ô","Õ","Ö","Ø","Ù","Ú","Û","Ü","Ý","Þ">>
LowerChars == <<"a","b","c","d","e","f","g","h","i","j","k","l","m",
                "n","o","p","q","r","s","t","u","v","w","x","y","z",
                "à","á","â","ã","ä","å","æ","ç","è","é","ê","ë","ì","í","î",
                "ï","ð","ñ","ò","ó","ô","õ","ö","ø","ù","ú","û","ü","ý","þ">>
\* The characters for which str.isspace() is true: those str.strip()
\* removes and the regular expression \s matches (space, tab, line feed,
\* carriage return, form feed, vertical tab, the separators 1C to 1F,
\* next line, no-break space).
SpaceChars == {" ", "\t", "\n", "\r", "\f",
               "", "", "", "", "", "", " "}

\* The regular expression \d.
IsDigit(c) == \E i \in 1..Len(Digits) : Digits[i] = c
\* c.isdigit()
IsDigitChar(c) == IsDigit(c) \/ c \in SuperscriptDigits
IsSpace(c) == c \in SpaceChars
LowerChar(c) ==
    IF \E i \in 1..Len(UpperChars) : UpperChars[i] = c
    THEN LowerChars[CHOOSE i \in 1..Len(UpperChars) : UpperChars[i] = c]
    ELSE c
\* str.lower()
Lower(s) == [i \in 1..Len(s) |-> LowerChar(s[i])]
\* any(c.isdigit() for c in s)
HasDigit(s) == \E i \in 1..Len(s) : IsDigitChar(s[i])
\* sub in s
Contains(s, sub) ==
    \E i \in 1..(Len(s) - Len(sub) + 1) : SubSeq(s, i, i + Len(sub) - 1) = sub
\* str.strip() / get_text(strip=True) of a single text node
Strip(s) ==
    IF \A i \in 1..Len(s) : IsSpace(s[i]) THEN <<>>
    ELSE LET a == CHOOSE i \in 1..Len(s) :
                      ~IsSpace(s[i]) /\ \A j \in 1..(i-1) : IsSpace(s[j])
             b == CHOOSE i \in 1..Len(s) :
                      ~IsSpace(s[i]) /\ \A j \in (i+1)..Len(s) : IsSpace(s[j])
         IN  SubSeq(s, a, b)

\* The first index j >= i at which s[j] is not a digit (Len(s)+1 if none):
\* where a greedy \d* starting at i stops.
RECURSIVE SkipDigits(_, _)
SkipDigits(s, i) ==
    IF i <= Len(s) /\ IsDigit(s[i]) THEN SkipDigits(s, i + 1) ELSE i
\* where a greedy \s* starting at i stops.
RECURSIVE SkipSpaces(_, _)
SkipSpaces(s, i) ==
    IF i <= Len(s) /\ IsSpace(s[i]) THEN SkipSpaces(s, i + 1) ELSE i

\* str(i) for a natural number i
RECURSIVE IntToText(_)
IntToText(i) ==
    IF i < 10 THEN <<Digits[i + 1]>>
    ELSE IntToText(i \div 10) \o <<Digits[(i % 10) + 1]>>

\* s.split(sep): cut at the leftmost occurrences of sep, left to right.
RECURSIVE Split(_, _)
Split(s, sep) ==
    IF ~Contains(s, sep) THEN <<s>>
    ELSE LET i == CHOOSE k \in 1..(Len(s) - Len(sep) + 1) :
                      /\ SubSeq(s, k, k + Len(sep) - 1) = sep
                      /\ \A j \in 1..(k-1) : SubSeq(s, j, j + Len(sep) - 1) # sep
         IN  <<SubSeq(s, 1, i - 1)>> \o Split(SubSeq(s, i + Len(sep), Len(s)), sep)

(***************************************************************************)
(* extract_lat_lng                                                         *)
(***************************************************************************)
\* An optional '-' at i, an optional '.' at i: the index after it.
SkipSign(s, i) == IF i <= Len(s) /\ s[i] = "-" THEN i + 1 ELSE i
SkipDot(s, i) == IF i <= Len(s) /\ s[i] = "." THEN i + 1 ELSE i
\* \d+ can match at i.
HasNumberAt(s, i) == i <= Len(s) /\ IsDigit(s[i])
\* Where the greedy \d+\.?\d* starting at i stops.
NumberEnd(s, i) == SkipDigits(s, SkipDot(s, SkipDigits(s, i)))

\* The groups of  (-?\d+\.?\d*),(-?\d+\.?\d*)  matched at i, group 1 ending
\* before index comma; <<>> when the expression does not match at i.
CoordGroups(s, i, comma) ==
    IF /\ HasNumberAt(s, SkipSign(s, i))
       /\ comma <= Len(s) /\ s[comma] = ","
       /\ HasNumberAt(s, SkipSign(s, comma + 1))
    THEN <<SubSeq(s, i, comma - 1),
           SubSeq(s, comma + 1, NumberEnd(s, SkipSign(s, comma + 1)) - 1)>>
    ELSE <<>>

\* Every quantifier is greedy and none of them can give a character back
\* to what follows it (',' is neither a digit nor '.'), so the greedy match
\* is the only candidate.
CoordMatchAt(s, i) == CoordGroups(s, i, NumberEnd(s, SkipSign(s, i)))

\* re.search(r'@(-?\d+\.?\d*),(-?\d+\.?\d*)', url): the places it matches.
AtPatternHits(url) ==
    {i \in 1..Len(url) : url[i] = "@" /\ CoordMatchAt(url, i + 1) # <<>>}

\* re.search(r'/place/[^/]+/@(-?\d+\.?\d*),(-?\d+\.?\d*)', url): the match
\* starting at i, as the index of its '@' (0 when there is none).
PlaceSlash == <<"/","p","l","a","c","e","/">>
RECURSIVE SkipNonSlash(_, _)
SkipNonSlash(s, i) ==
    IF i <= Len(s) /\ s[i] # "/" THEN SkipNonSlash(s, i + 1) ELSE i
PlaceAt(url, i, k) ==
    IF /\ i + Len(PlaceSlash) - 1 <= Len(url)
       /\ SubSeq(url, i, i + Len(PlaceSlash) - 1) = PlaceSlash
       /\ k > i + Len(PlaceSlash)
       /\ k + 1 <= Len(url) /\ url[k] = "/" /\ url[k + 1] = "@"
       /\ CoordMatchAt(url, k + 2) # <<>>
    THEN k + 1 ELSE 0
PlacePatternAt(url, i) == PlaceAt(url, i, SkipNonSlash(url, i + Len(PlaceSlash)))
PlacePatternHits(url) == {i \in 1..Len(url) : PlacePatternAt(url, i) # 0}

Min(S) == CHOOSE x \in S : \A y \in S : x <= y

NoCoords == <<None, None>>
\* (match.group(1), match.group(2))
MatchGroups(m) == <<Some(m[1]), Some(m[2])>>

\* The two searches, the leftmost match of each.
SearchCoords(u, hits, placeHits) ==
    IF hits # {} THEN MatchGroups(CoordMatchAt(u, Min(hits) + 1))
    ELSE IF placeHits # {}
    THEN MatchGroups(CoordMatchAt(u, PlacePatternAt(u, Min(placeHits)) + 1))
    ELSE NoCoords

\* A variant whose second group is optional: '@' and one number give a
\* latitude without a longitude.
LatOnlyHits(u) == {i \in 1..Len(u) : u[i] = "@" /\ HasNumberAt(u, SkipSign(u, i + 1))}
LatOnly(u, hits) ==
    IF hits = {} THEN NoCoords
    ELSE <<Some(SubSeq(u, Min(hits) + 1, NumberEnd(u, SkipSign(u, Min(hits) + 1)) - 1)),
           None>>
extract_lat_lng_optional_lng(url) ==
    IF ~Truthy(url) THEN NoCoords
    ELSE IF AtPatternHits(Val(url)) # {}
    THEN SearchCoords(Val(url), AtPatternHits(Val(url)), {})
    ELSE LatOnly(Val(url), LatOnlyHits(Val(url)))

\* extract_lat_lng(url): <<lat, lng>>, each an optional text.
extract_lat_lng(url) ==
    IF ~Truthy(url) THEN NoCoords
    ELSE SearchCoords(Val(url), AtPatternHits(Val(url)), PlacePatternHits(Val(url)))

(***************************************************************************)
(* parse_listings: the classification of one detail text                   *)
(***************************************************************************)
\* re.search(r'^(\d+\.?\d*)\s*\(', text): group 1, the number ending before
\* index d and the '(' expected at index paren; <<>> when there is no match.
RatingGroup(text, d, paren) ==
    IF HasNumberAt(text, 1) /\ paren <= Len(text) /\ text[paren] = "("
    THEN SubSeq(text, 1, d - 1) ELSE <<>>
RatingMatch(text) ==
    RatingGroup(text, NumberEnd(text, 1), SkipSpaces(text, NumberEnd(text, 1)))

CategoryKeywords == {
    <<"r","e","s","t","a","u","r","a","n","t">>, <<"c","a","f","e">>,
    <<"b","a","r">>, <<"s","h","o","p">>, <<"s","t","o","r","e">>,
    <<"h","o","t","e","l">>, <<"m","u","s","e","u","m">>, <<"p","a","r","k">>,
    <<"f","o","o","d">>, <<"c","u","i","s","i","n","e">>,
    <<"g","r","i","l","l">>, <<"b","a","k","e","r","y">>,
    <<"i","c","e"," ","c","r","e","a","m">>, <<"b","u","r","g","e","r">>,
    <<"p","i","z","z","a">>, <<"s","u","s","h","i">>, <<"s","t","e","a","k">>}
HasCategoryKeyword(text) ==
    \E kw \in CategoryKeywords : Contains(Lower(text), kw)

MinTextLen == 2
CategoryMaxLen == 30
AddressMinLen == 20
AddressPartMinLen == 5
SpanCategoryMaxLen == 25

MiddleDot == <<" ","·"," ">>
\* Lines 299-305: the first part that has a digit and more than 5
\* characters, else the whole text.
FirstAddressPart(text, parts, good) ==
    IF good = {} THEN text ELSE parts[Min(good)]
AddressPart(text, parts) ==
    FirstAddressPart(text, parts,
        {i \in 1..Len(parts) :
            HasDigit(parts[i]) /\ Len(parts[i]) > AddressPartMinLen})
AddressOf(text) ==
    IF ~Contains(text, MiddleDot) THEN text
    ELSE AddressPart(text, Split(text, MiddleDot))

\* A variant whose rating rule lacks the '(' : any text starting with a
\* number is taken as a rating.
FieldKindLooseRating(pd, text) ==
    IF Len(text) < MinTextLen THEN "ignore"
    ELSE IF HasNumberAt(text, 1) THEN "rating"
    ELSE IF /\ ~Truthy(pd.category) /\ Len(text) < CategoryMaxLen
            /\ ~HasDigit(text) /\ HasCategoryKeyword(text) THEN "category"
    ELSE IF /\ ~Truthy(pd.address)
            /\ (HasDigit(text) \/ Len(text) > AddressMinLen) THEN "address"
    ELSE "ignore"

\* The field a detail text sets, given the fields already set: one of
\* "ignore", "rating", "category", "address" (the loop body's branches, in
\* the order the code tests them).
FieldKind(pd, text) ==
    IF Len(text) < MinTextLen THEN "ignore"
    ELSE IF RatingMatch(text) # <<>> THEN "rating"
    ELSE IF /\ ~Truthy(pd.category) /\ Len(text) < CategoryMaxLen
            /\ ~HasDigit(text) /\ HasCategoryKeyword(text) THEN "category"
    ELSE IF /\ ~Truthy(pd.address)
            /\ (HasDigit(text) \/ Len(text) > AddressMinLen) THEN "address"
    ELSE "ignore"

\* The assignment each branch makes.
SetField(pd, text, kind) ==
    CASE kind = "rating"   -> [pd EXCEPT !.rating = Some(RatingMatch(text))]
      [] kind = "category" -> [pd EXCEPT !.category = Some(text)]
      [] kind = "address"  -> [pd EXCEPT !.address = Some(AddressOf(text))]
      [] OTHER             -> pd

ClassifyText(pd, text) == SetField(pd, text, FieldKind(pd, text))

\* One iteration of `for div in detail_divs`, on the div's raw text.
ClassifyDiv(pd, raw) == ClassifyText(pd, Strip(raw))

RECURSIVE ClassifyAll(_, _)
ClassifyAll(pd, divs) ==
    IF divs = <<>> THEN pd
    ELSE ClassifyAll(ClassifyDiv(pd, Head(divs)), Tail(divs))

\* Lines 309-315: `if not place_data['category']`: the first span text that
\* is non-empty, shorter than 25 characters and digit-free.
IsSpanCategory(text) ==
    Len(text) > 0 /\ Len(text) < SpanCategoryMaxLen /\ ~HasDigit(text)
FirstSpanCategory(pd, spans, good) ==
    IF Truthy(pd.category) \/ good = {} THEN pd
    ELSE [pd EXCEPT !.category = Some(Strip(spans[Min(good)]))]
SpanCategory(pd, spans) ==
    FirstSpanCategory(pd, spans,
        {i \in 1..Len(spans) : IsSpanCategory(Strip(spans[i]))})

(***************************************************************************)
(* The page.  A container (div.Nv2PK) is a record                          *)
(*   headline, qbf : the raw text of its div.fontHeadlineSmall and         *)
(*                   div.qBF1Pd, None when it has no such element;         *)
(*   href          : its first a[href], None when it has none;             *)
(*   details, spans: the raw texts of its div.W4Efsd / span.W4Efsd;        *)
(*   qbf_first     : its div.qBF1Pd comes before its div.fontHeadlineSmall *)
(*                   in document order;                                    *)
(*   note          : the value of its note textarea, None when it has no   *)
(*                   textarea;                                             *)
(*   note_class_only: the textarea has the class MP5iJf and no             *)
(*                   aria-label="Note";                                    *)
(*   note_depth    : the number of elements between the textarea and the   *)
(*                   container (0: the textarea is a child of it);         *)
(*   fault         : the step at which handling it raises ("none", or      *)
(*                   "name", "link", "details", "note" inside              *)
(*                   parse_listings, or inside extract_notes_from_page     *)
(*                   "stale" when reading its note element raises and      *)
(*                   "walk" when the walk up from it raises).              *)
(* The containers are the children of one list element.                    *)
(***************************************************************************)
Container(h, q, u, d, sp, n, f) ==
    [headline |-> h, qbf |-> q, qbf_first |-> FALSE, href |-> u,
     details |-> d, spans |-> sp, note |-> n, note_class_only |-> FALSE,
     note_depth |-> 0, fault |-> f]
\* The same container with its name elements in the other order, with a
\* class-only textarea, with the textarea `depth` elements down.
QbfFirst(c) == [c EXCEPT !.qbf_first = TRUE]
ClassOnly(c) == [c EXCEPT !.note_class_only = TRUE]
NoteDepth(c, depth) == [c EXCEPT !.note_depth = depth]

City == <<"C","h","i">>

\* place_data as created at the top of the loop body (lines 239-249).
NewPlaceData(city) ==
    [place |-> None, address |-> None, category |-> None, rating |-> None,
     url |-> None, note |-> None, lat |-> None, lng |-> None, city |-> city]

\* name_elem: div.fontHeadlineSmall, else div.qBF1Pd.
NameElem(c) == IF c.headline # None THEN c.headline ELSE c.qbf

\* Lines 252-257.
WithName(pd, c) ==
    IF NameElem(c) # None
    THEN [pd EXCEPT !.place = Some(Strip(Val(NameElem(c))))]
    ELSE pd

\* Lines 259-266.
SetLink(pd, href, latlng) ==
    [pd EXCEPT !.url = href, !.lat = latlng[1], !.lng = latlng[2]]
WithLink(pd, c) ==
    IF c.href # None THEN SetLink(pd, c.href, extract_lat_lng(c.href)) ELSE pd

\* Lines 268-315.
WithDetails(pd, c) == SpanCategory(ClassifyAll(pd, c.details), c.spans)

\* Lines 317-322: the container's own note, found by its aria-label.
OwnNote(pd, c) ==
    IF c.note # None /\ ~c.note_class_only /\ Strip(Val(c.note)) # <<>>
    THEN [pd EXCEPT !.note = Some(Strip(Val(c.note)))]
    ELSE pd
\* Lines 324-326: the notes dictionary, by place name.
DictNote(pd, notes) ==
    IF Truthy(pd.place) /\ Val(pd.place) \in DOMAIN notes
    THEN [pd EXCEPT !.note = Some(notes[Val(pd.place)])]
    ELSE pd
WithNote(pd, c, notes) == DictNote(OwnNote(pd, c), notes)

\* The try block of one loop iteration (lines 251-334), step by step: the
\* place_data it holds when it ends or raises, and whether it raised.
Outcome(raised, pd) == [raised |-> raised, pd |-> pd]
\* The steps of the block at which an item may raise.
ParseFaults == {"name", "link", "details", "note"}
FromNote(c, notes, pd) ==
    IF c.fault = "note" THEN Outcome(TRUE, pd)
    ELSE Outcome(FALSE, WithNote(pd, c, notes))
FromDetails(c, notes, pd) ==
    IF c.fault = "details" THEN Outcome(TRUE, pd)
    ELSE FromNote(c, notes, WithDetails(pd, c))
FromLink(c, notes, pd) ==
    IF c.fault = "link" THEN Outcome(TRUE, pd)
    ELSE FromDetails(c, notes, WithLink(pd, c))
ParseContainer(c, notes, city) ==
    IF c.fault = "name" THEN Outcome(TRUE, NewPlaceData(city))
    ELSE FromLink(c, notes, WithName(NewPlaceData(city), c))

\* Variants of the append: one that appends whatever the block had built
\* when it raised, one that does not test the name.
AppendedPartial(r) == IF Truthy(r.pd.place) THEN <<r.pd>> ELSE <<>>
AppendedUnnamed(r) == IF ~r.raised THEN <<r.pd>> ELSE <<>>

\* Lines 328-334: what the iteration adds to `places`.
Appended(r) == IF ~r.raised /\ Truthy(r.pd.place) THEN <<r.pd>> ELSE <<>>
PlacesOf(c, notes, city) == Appended(ParseContainer(c, notes, city))

\* A variant that drops a place whose name was seen before.
RECURSIVE DedupFrom(_, _, _, _)
DedupFrom(soup, notes, city, seen) ==
    IF soup = <<>> THEN <<>>
    ELSE LET new == PlacesOf(Head(soup), notes, city)
         IN  IF new # <<>> /\ new[1].place \in seen
             THEN DedupFrom(Tail(soup), notes, city, seen)
             ELSE new \o DedupFrom(Tail(soup), notes, city,
                                   seen \cup {new[i].place : i \in 1..Len(new)})
parse_listings_dedup(soup, notes, city) == DedupFrom(soup, notes, city, {})

\* parse_listings(soup, notes_dict, city), the containers in page order.
RECURSIVE parse_listings(_, _, _)
parse_listings(soup, notes, city) ==
    IF soup = <<>> THEN <<>>
    ELSE PlacesOf(Head(soup), notes, city) \o parse_listings(Tail(soup), notes, city)

(***************************************************************************)
(* extract_notes_from_page                                                 *)
(***************************************************************************)
\* Lines 171-175: the textareas with aria-label="Note" in document order
\* (as the indices of their containers); when there is none, the textareas
\* of class MP5iJf.
NotesBy(dom, class_only) ==
    SelectSeq([i \in 1..Len(dom) |-> i],
              LAMBDA i : dom[i].note # None /\ dom[i].note_class_only = class_only)
NoteElements(dom) ==
    IF NotesBy(dom, FALSE) # <<>> THEN NotesBy(dom, FALSE) ELSE NotesBy(dom, TRUE)

\* range(10) of line 188: the number of ancestors the walk visits.
WalkLimit == 10

\* place_elem[0] of line 192-194 inside one container: its first name
\* element in document order.
FirstNameElem(c) ==
    IF c.headline # None /\ c.qbf # None
    THEN (IF c.qbf_first THEN c.qbf ELSE c.headline)
    ELSE NameElem(c)

\* Lines 184-197: the place name found by walking up from the note element
\* of container k.  The container is ancestor note_depth + 1 and the list
\* is the next one; the walk stops at the first ancestor that holds a name
\* element and takes the first one in it, so the container's first name
\* element, else the first name element of the page; it visits WalkLimit
\* ancestors at most.
FirstNamed(dom, k, named) ==
    IF NameElem(dom[k]) # None /\ dom[k].note_depth + 1 <= WalkLimit
    THEN Some(Strip(Val(FirstNameElem(dom[k]))))
    ELSE IF NameElem(dom[k]) = None /\ named # {}
            /\ dom[k].note_depth + 2 <= WalkLimit
    THEN Some(Strip(Val(FirstNameElem(dom[Min(named)]))))
    ELSE None
\* An exception inside the walk ends it with no name (lines 196-197).
AncestorPlaceName(dom, k) ==
    IF dom[k].fault = "walk" THEN None
    ELSE FirstNamed(dom, k, {j \in 1..Len(dom) : NameElem(dom[j]) # None})

PlaceKey(i) == <<"p","l","a","c","e","_">> \o IntToText(i)

DictPut(d, k, v) == [x \in (DOMAIN d) \cup {k} |-> IF x = k THEN v ELSE d[x]]

\* Lines 199-202.
PutNote(d, name, i, text) ==
    IF Truthy(name) THEN DictPut(d, Val(name), text)
    ELSE DictPut(d, PlaceKey(i), text)

\* Lines 180-206: the body of the loop for note element i, of container k.
NoteEntryKeepsRaising(dom, k, i, d) ==
    IF Strip(Val(dom[k].note)) = <<>> THEN d
    ELSE PutNote(d, AncestorPlaceName(dom, k), i, Strip(Val(dom[k].note)))
NoteEntry(dom, k, i, d) ==
    IF dom[k].fault = "stale" \/ Strip(Val(dom[k].note)) = <<>> THEN d
    ELSE PutNote(d, AncestorPlaceName(dom, k), i, Strip(Val(dom[k].note)))

\* The loop over note_elements from position n on (i is n - 1).
RECURSIVE NotesFrom(_, _, _, _)
NotesFrom(dom, elems, n, d) ==
    IF n > Len(elems) THEN d
    ELSE NotesFrom(dom, elems, n + 1, NoteEntry(dom, elems[n], n - 1, d))

EmptyDict == <<>>
extract_notes_from_page(dom) == NotesFrom(dom, NoteElements(dom), 1, EmptyDict)

\* Lines 204-206: the note elements whose reading raises ("Error extracting
\* note i" is printed and the loop continues), as the containers they are in.
StaleItems(dom, elems) ==
    {dom[elems[n]] : n \in {m \in 1..Len(elems) : dom[elems[m]].fault = "stale"}}
NoteErrors(dom) == StaleItems(dom, NoteElements(dom))

(***************************************************************************)
(* The DataFrame of the places and its records.                            *)
(***************************************************************************)
ColumnOrder == <<"city", "place", "address", "category", "rating", "note",
                 "lat", "lng", "url">>

\* pd.DataFrame(places)[[col for col in column_order if col in df.columns]]
DataFrame(ps) ==
    [columns |-> IF ps = <<>> THEN <<>> ELSE ColumnOrder,
     rows |-> [i \in 1..Len(ps) |->
                  [j \in 1..Len(ColumnOrder) |-> ps[i][ColumnOrder[j]]]]]

\* df.to_dict('records')
ToDict(frame) ==
    [i \in 1..Len(frame.rows) |->
        [col \in {frame.columns[j] : j \in 1..Len(frame.columns)} |->
            frame.rows[i][CHOOSE j \in 1..Len(frame.columns) : frame.columns[j] = col]]]

(***************************************************************************)
(* scrape_google_maps_list: the state of one run.                          *)
(*   pc            : the statement the run is at ("scroll_read": after the *)
(*                   scroll and the wait of an iteration, before its       *)
(*                   reading);                                             *)
(*   driver        : "none" (driver = None), "open", "closed" (after       *)
(*                   quit); quits counts the calls of driver.quit();       *)
(*   usedAfterQuit : a driver call was made on a closed session;           *)
(*   exc           : the exception caught by `except Exception`, "none"    *)
(*                   when there is none;                                   *)
(*   warnings      : the warnings printed so far;                          *)
(*   max_scrolls, last_height, scroll_count: scroll_to_load_all's frame;   *)
(*   cycles, readings: the scroll-and-wait cycles it has performed and     *)
(*                   the scrollHeight values it has read (history);        *)
(*   page          : the containers of the DOM after scrolling;            *)
(*   note_errors   : the containers whose note raised when the note pass   *)
(*                   read it, caught at line 204 (history);                *)
(*   notes_dict, places, df: the locals of the run;                        *)
(*   sink          : the rows written to output_file, None if none;        *)
(*   result        : the result dictionary; returned: what was returned.   *)
(***************************************************************************)
Url == <<"u">>

Message(kind, n, text) == [kind |-> kind, n |-> n, text |-> text]

\* Lines 363-374.
InitialResult ==
    [success |-> FALSE, message |-> Message("empty", 0, "none"), data |-> <<>>,
     format |-> "dict", count |-> 0, execution_time |-> "zero",
     url |-> Url, city |-> City]

Init ==
    /\ pc = "setup"
    /\ driver = "none" /\ quits = 0 /\ usedAfterQuit = FALSE
    /\ exc = "none" /\ warnings = {}
    /\ max_scrolls = 0 /\ last_height = 0 /\ scroll_count = 0
    /\ cycles = 0 /\ readings = <<>>
    /\ note_errors = {}
    /\ page = <<>> /\ notes_dict = EmptyDict /\ places = <<>>
    /\ df = DataFrame(<<>>) /\ sink = None
    /\ result = InitialResult /\ returned = None

scrollFrame == <<max_scrolls, last_height, scroll_count, cycles, readings>>
runLocals == <<note_errors, page, notes_dict, places, df, sink>>

\* A call on the driver: it is a use after release if the session is closed.
DriverCall == usedAfterQuit' = (usedAfterQuit \/ driver # "open")

\* An exception raised inside the try block: control goes to the handler.
Raise(tag) == pc' = "except" /\ exc' = tag

\* Line 378: setup_driver returns a driver, or raises.
SetupDriver ==
    /\ pc = "setup"
    /\ \/ /\ driver' = "open" /\ pc' = "get" /\ exc' = exc
       \/ /\ driver' = driver /\ Raise("setup")
    /\ UNCHANGED <<quits, usedAfterQuit, warnings, scrollFrame, runLocals,
                   result, returned>>

\* Lines 382-385: driver.get(url).
Navigate ==
    /\ pc = "get"
    /\ DriverCall
    /\ \/ pc' = "wait" /\ exc' = exc
       \/ Raise("get")
    /\ UNCHANGED <<driver, quits, warnings, scrollFrame, runLocals, result,
                   returned>>

\* A variant in which the timeout is not caught.
WaitReadyTimeoutRaises ==
    /\ pc = "wait"
    /\ DriverCall
    /\ \/ pc' = "scroll" /\ exc' = exc /\ warnings' = warnings
       \/ Raise("wait") /\ warnings' = warnings \cup {"timeout"}
       \/ Raise("wait") /\ warnings' = warnings
    /\ UNCHANGED <<driver, quits, scrollFrame, runLocals, result, returned>>

\* Lines 388-393: the readiness wait.  A TimeoutException is caught: a
\* warning is printed and the run goes on.
WaitReady ==
    /\ pc = "wait"
    /\ DriverCall
    /\ \/ pc' = "scroll" /\ exc' = exc /\ warnings' = warnings
       \/ pc' = "scroll" /\ exc' = exc /\ warnings' = warnings \cup {"timeout"}
       \/ Raise("wait") /\ warnings' = warnings
    /\ UNCHANGED <<driver, quits, scrollFrame, runLocals, result, returned>>

Heights == {10, 20, 30}

\* Lines 88-102: the search for the scrolling element.  When no selector
\* finds one a warning is printed and the page body is taken.
FindScrollingElement ==
    \/ warnings' = warnings
    \/ warnings' = warnings \cup {"no_scroll_element"}

\* Lines 396, 81-108: the call of scroll_to_load_all and its first reading.
ScrollStart ==
    /\ pc = "scroll"
    /\ DriverCall
    /\ FindScrollingElement
    /\ \/ \E m \in 0..MaxScrolls, h \in Heights :
             /\ max_scrolls' = m /\ last_height' = h /\ scroll_count' = 0
             /\ cycles' = 0 /\ readings' = <<h>>
             /\ pc' = "scroll_loop" /\ exc' = exc
       \/ Raise("scroll") /\ UNCHANGED scrollFrame
    /\ UNCHANGED <<driver, quits, runLocals, result, returned>>

\* Variants of the comparison: one that stops when the height has changed,
\* one that does not count the scroll.
AfterReadingInverted(new_height) ==
    IF new_height # last_height
    THEN /\ pc' = "scroll_exit"
         /\ UNCHANGED <<last_height, scroll_count>>
    ELSE /\ pc' = "scroll_loop"
         /\ last_height' = new_height
         /\ scroll_count' = scroll_count + 1
AfterReadingUncounted(new_height) ==
    IF new_height = last_height
    THEN /\ pc' = "scroll_exit"
         /\ UNCHANGED <<last_height, scroll_count>>
    ELSE /\ pc' = "scroll_loop"
         /\ last_height' = new_height
         /\ scroll_count' = scroll_count

\* Lines 118-123: what a reading does to the loop.
AfterReading(new_height) ==
    IF new_height = last_height
    THEN /\ pc' = "scroll_exit"
         /\ UNCHANGED <<last_height, scroll_count>>
    ELSE /\ pc' = "scroll_loop"
         /\ last_height' = new_height
         /\ scroll_count' = scroll_count + 1

\* Lines 110-113: the loop condition holds, the scroll of line 112 and the
\* wait of line 113.  After it the run has scrolled and waited once more
\* and has not read the height yet; the scroll may raise, before the wait.
ScrollDown ==
    /\ pc = "scroll_loop"
    /\ scroll_count < max_scrolls
    /\ DriverCall
    /\ \/ /\ cycles' = cycles + 1
          /\ pc' = "scroll_read" /\ exc' = exc
          /\ UNCHANGED <<max_scrolls, last_height, scroll_count, readings>>
       \/ Raise("scroll") /\ UNCHANGED scrollFrame
    /\ UNCHANGED <<driver, quits, warnings, runLocals, result, returned>>

\* Lines 116-123: the reading of the height after the wait, and what it
\* does to the loop; the reading may raise.
ReadHeight ==
    /\ pc = "scroll_read"
    /\ DriverCall
    /\ \/ \E new_height \in Heights :
             /\ readings' = Append(readings, new_height)
             /\ AfterReading(new_height)
             /\ exc' = exc
             /\ UNCHANGED <<max_scrolls, cycles>>
       \/ Raise("scroll") /\ UNCHANGED scrollFrame
    /\ UNCHANGED <<driver, quits, warnings, runLocals, result, returned>>

\* Line 110: the loop condition fails.
ScrollCap ==
    /\ pc = "scroll_loop"
    /\ ~(scroll_count < max_scrolls)
    /\ pc' = "scroll_exit"
    /\ UNCHANGED <<driver, quits, usedAfterQuit, exc, warnings, scrollFrame,
                   runLocals, result, returned>>

\* Lines 126-127: the warning at the cap, and the return (the frame goes).
ScrollReturn ==
    /\ pc = "scroll_exit"
    /\ warnings' = IF scroll_count >= max_scrolls
                   THEN warnings \cup {"max_scrolls"} ELSE warnings
    /\ max_scrolls' = 0 /\ last_height' = 0 /\ scroll_count' = 0
    /\ cycles' = 0 /\ readings' = <<>>
    /\ pc' = "notes"
    /\ UNCHANGED <<driver, quits, usedAfterQuit, exc, runLocals, result,
                   returned>>

(***************************************************************************)
(* The pages of the run: up to MaxContainers containers, each one of a few *)
(* kinds (named, blank name, no name element, raising when it is parsed,   *)
(* with a note, with a note whose reading raises).                         *)
(***************************************************************************)
NameA == <<"A">>
NameB == <<"B">>
Plain(name) == Container(Some(name), None, None, <<>>, <<>>, None, "none")
\* Named " B", with the note "n ".
SpacedB ==
    Container(Some(<<" ", "B">>), None, None, <<>>, <<>>, Some(<<"n", " ">>), "none")
\* Named A (by its headline), its note element stale when it is read.
StaleNote ==
    Container(Some(NameA), None, None, <<>>, <<>>, Some(<<"m">>), "stale")
MainContainers ==
    { Plain(NameA), Plain(NameB),
      Container(Some(<<" ">>), None, Some(<<"@","1",",","2">>), <<>>, <<>>, None, "none"),
      Container(None, None, None, <<<<"B","a","r">>>>, <<>>, None, "none"),
      Container(Some(NameA), None, None, <<>>, <<>>, None, "details"),
      SpacedB, StaleNote }

PagesOver(pool, n) == UNION {[1..k -> pool] : k \in 0..n}
MainPages == PagesOver(MainContainers, MaxContainers)

\* Lines 400, 167-211: extract_notes_from_page on the DOM as it is when
\* the notes are read.  An exception of find_elements is caught inside: no
\* notes.
ExtractNotes(pool) ==
    /\ pc = "notes"
    /\ DriverCall
    /\ \E dom \in pool :
          \/ /\ notes_dict' = extract_notes_from_page(dom)
             /\ note_errors' = NoteErrors(dom)
          \/ /\ notes_dict' = EmptyDict
             /\ note_errors' = {}
    /\ pc' = "source"
    /\ UNCHANGED <<driver, quits, exc, warnings, scrollFrame, page, places, df,
                   sink, result, returned>>

\* Line 405: BeautifulSoup(driver.page_source), the DOM as it is at this
\* later call: the browser is live and the page may have changed since the
\* notes were read.
PageSource(pool) ==
    /\ pc = "source"
    /\ DriverCall
    /\ \/ \E dom \in pool : page' = dom /\ pc' = "parse" /\ exc' = exc
       \/ Raise("source") /\ page' = page
    /\ UNCHANGED <<driver, quits, warnings, scrollFrame, note_errors,
                   notes_dict, places, df, sink, result, returned>>

\* Line 408.
ParseListings ==
    /\ pc = "parse"
    /\ places' = parse_listings(page, notes_dict, City)
    /\ pc' = "dataframe"
    /\ UNCHANGED <<driver, quits, usedAfterQuit, exc, warnings, scrollFrame,
                   note_errors, page, notes_dict, df, sink, result, returned>>

\* Lines 413-417.
MakeDataFrame ==
    /\ pc = "dataframe"
    /\ df' = DataFrame(places)
    /\ pc' = "save"
    /\ UNCHANGED <<driver, quits, usedAfterQuit, exc, warnings, scrollFrame,
                   note_errors, page, notes_dict, places, sink, result,
                   returned>>

\* Lines 420-425: df.to_json / df.to_csv when output_file is given.
SaveOutput ==
    /\ pc = "save"
    /\ \/ pc' = "publish" /\ exc' = exc /\ sink' = sink
       \/ pc' = "publish" /\ exc' = exc /\ sink' = Some(df.rows)
       \/ Raise("save") /\ sink' = sink
    /\ UNCHANGED <<driver, quits, usedAfterQuit, warnings, scrollFrame, page,
                   note_errors, notes_dict, places, df, result, returned>>

\* Lines 427-432.
Publish ==
    /\ pc = "publish"
    /\ result' = [result EXCEPT !.success = TRUE,
                                !.message = Message("scraped", Len(places), "none"),
                                !.count = Len(places),
                                !.execution_time = "elapsed"]
    /\ pc' = "data"
    /\ UNCHANGED <<driver, quits, usedAfterQuit, exc, warnings, scrollFrame,
                   runLocals, returned>>

\* Lines 434-437: result['data'] is the frame itself (return_format
\* 'dataframe', kept here as its records) or df.to_dict('records').
SetData ==
    /\ pc = "data"
    /\ \/ /\ result' = [result EXCEPT !.data = ToDict(df), !.format = "dataframe"]
          /\ pc' = "finally" /\ exc' = exc
       \/ /\ result' = [result EXCEPT !.data = ToDict(df)]
          /\ pc' = "finally" /\ exc' = exc
       \/ Raise("to_dict") /\ result' = result
    /\ UNCHANGED <<driver, quits, usedAfterQuit, warnings, scrollFrame,
                   runLocals, returned>>

\* Lines 439-443.
Except ==
    /\ pc = "except"
    /\ result' = [result EXCEPT !.message = Message("error", 0, exc)]
    /\ pc' = "finally"
    /\ UNCHANGED <<driver, quits, usedAfterQuit, exc, warnings, scrollFrame,
                   runLocals, returned>>

\* A variant that closes the browser only when nothing was raised.
FinallyQuitOnSuccess ==
    /\ pc = "finally"
    /\ IF driver # "none" /\ exc = "none"
       THEN driver' = "closed" /\ quits' = quits + 1
       ELSE UNCHANGED <<driver, quits>>
    /\ pc' = "return"
    /\ UNCHANGED <<usedAfterQuit, exc, warnings, scrollFrame, runLocals,
                   result, returned>>

\* Lines 445-448.
Finally ==
    /\ pc = "finally"
    /\ IF driver # "none"
       THEN driver' = "closed" /\ quits' = quits + 1
       ELSE UNCHANGED <<driver, quits>>
    /\ pc' = "return"
    /\ UNCHANGED <<usedAfterQuit, exc, warnings, scrollFrame, runLocals,
                   result, returned>>

\* Line 450.
Return ==
    /\ pc = "return"
    /\ returned' = Some(result)
    /\ pc' = "done"
    /\ UNCHANGED <<driver, quits, usedAfterQuit, exc, warnings, scrollFrame,
                   runLocals, result>>

Next ==
    \/ SetupDriver \/ Navigate \/ WaitReady
    \/ ScrollStart \/ ScrollDown \/ ReadHeight \/ ScrollCap \/ ScrollReturn
    \/ ExtractNotes(MainPages) \/ PageSource(MainPages) \/ ParseListings
    \/ MakeDataFrame \/ SaveOutput \/ Publish \/ SetData
    \/ Except \/ Finally \/ Return

Spec == Init /\ [][Next]_vars

(***************************************************************************)
(* Parsing on its own: the run at line 408, the page being one container   *)
(* with a link drawn from every text of up to MaxUrlLen characters over    *)
(* UrlChars and a few real-looking URLs, or with up to MaxDetails detail   *)
(* texts drawn from Fragments.                                             *)
(***************************************************************************)
UrlChars == {"@", "-", "1", ".", ",", "/"}
ShortUrls == UNION {[1..n -> UrlChars] : n \in 0..MaxUrlLen}
UrlPlace == <<"h","t","t","p","s",":","/","/","m","a","p","s",".","g","o","o","g","l","e",".","c","o","m","/","m","a","p","s","/","p","l","a","c","e","/","J","o","e","/","@","1",".","3","0","5","9","1","8","7",",","1","0","3",".","8","2","9","3","2","4","6",",","1","7","z">>
UrlAt == <<"h","t","t","p","s",":","/","/","w","w","w",".","g","o","o","g","l","e",".","c","o","m","/","m","a","p","s","/","@","-","3","3",".","8","6",",","1","5","1",".","2","0">>
UrlNoCoords == <<"h","t","t","p","s",":","/","/","g","o","o",".","g","l","/","m","a","p","s","/","a","b","c">>
UrlLatOnly == <<"/","m","a","p","s","/","@","1",".","3","0","5","/","d","a","t","a">>
SampleUrls == {UrlPlace, UrlAt, UrlNoCoords, UrlLatOnly}
Hrefs == {None} \cup {Some(u) : u \in ShortUrls \cup SampleUrls}

FragRating == <<"4",".","5","(","1","2","3",")">>
FragPrice == <<"$","$">>
FragCategory == <<"I","t","a","l","i","a","n"," ","R","e","s","t","a","u","r","a","n","t">>
FragAddress == <<"1","2","3"," ","M","a","i","n"," ","S","t",","," ","S","p","r","i","n","g","f","i","e","l","d">>
FragStars == <<"4",".","7"," ","s","t","a","r","s"," ","2",",","3","4","0"," ","R","e","v","i","e","w","s">>
FragClosed == <<"T","e","m","p","o","r","a","r","i","l","y"," ","c","l","o","s","e","d">>
FragNearby == <<"N","e","a","r","b","y",":"," ","5"," ","E","l","m"," ","S","t","r","e","e","t">>
FragCafeDot == <<"C","a","f","e"," ","·"," ","1","2"," ","O","a","k"," ","A","v","e","n","u","e">>
FragLong == <<"W","i","n","e"," ","B","a","r"," ","·"," ","D","o","w","n","t","o","w","n"," ","d","i","s","t","r","i","c","t"," ","a","r","e","a">>
FragShop == <<" ","C","o","f","f","e","e"," ","s","h","o","p"," ">>
FragOne == <<"9">>
FragSpaced == <<"3"," ","(","8",")">>
\* A venue keyword with a superscript digit; a rating with a no-break space.
FragSquare == <<"C","a","f","e"," ","m","²">>
FragNbsp == <<"2"," ","(","7",")"," ">>
Fragments == {FragRating, FragPrice, FragCategory, FragAddress, FragStars,
              FragClosed, FragNearby, FragCafeDot, FragLong, FragShop,
              FragOne, FragSpaced, FragSquare, FragNbsp, <<>>}
DetailLists == UNION {[1..n -> Fragments] : n \in 0..MaxDetails}
SpanLists == {<<>>, <<FragOne, FragClosed>>}

ParsePages ==
    {<<Container(Some(NameA), None, h, <<>>, <<>>, None, "none")>> : h \in Hrefs}
    \cup {<<Container(Some(NameA), None, None, d, sp, None, "none")>> :
             d \in DetailLists, sp \in SpanLists}

InitParse ==
    /\ pc = "parse"
    /\ driver = "open" /\ quits = 0 /\ usedAfterQuit = FALSE
    /\ exc = "none" /\ warnings = {}
    /\ max_scrolls = 0 /\ last_height = 0 /\ scroll_count = 0
    /\ cycles = 0 /\ readings = <<>>
    /\ page \in ParsePages /\ notes_dict = extract_notes_from_page(page)
    /\ note_errors = NoteErrors(page)
    /\ places = <<>> /\ df = DataFrame(<<>>) /\ sink = None
    /\ result = InitialResult /\ returned = None

NextParse == ParseListings \/ MakeDataFrame

SpecParse == InitParse /\ [][NextParse]_vars

(***************************************************************************)
(* The notes of the items: the run from the call of                        *)
(* extract_notes_from_page to the frame, over pages whose note fields are  *)
(* of every kind the note pass tells apart.                                *)
(***************************************************************************)
\* Named A by its headline, with a div.qBF1Pd of text B before it and a
\* class-only note.
TwoNames ==
    ClassOnly(QbfFirst(
        Container(Some(NameA), Some(NameB), None, <<>>, <<>>, Some(<<"q">>), "none")))
\* Named A, its note WalkLimit elements below the container.
DeepNote ==
    NoteDepth(Container(Some(NameA), None, None, <<>>, <<>>, Some(<<"d">>), "none"),
              WalkLimit)
\* Named B, the walk up from its note raising.
WalkFault ==
    Container(Some(NameB), None, None, <<>>, <<>>, Some(<<"w">>), "walk")
\* No name element, with the note "x".
Nameless == Container(None, None, None, <<>>, <<>>, Some(<<"x">>), "none")

NoteContainers ==
    { Plain(NameA), Plain(NameB), SpacedB, Nameless, StaleNote, TwoNames,
      DeepNote, WalkFault }
NotePages == PagesOver(NoteContainers, MaxContainers)

InitNotes ==
    /\ pc = "notes"
    /\ driver = "open" /\ quits = 0 /\ usedAfterQuit = FALSE
    /\ exc = "none" /\ warnings = {}
    /\ max_scrolls = 0 /\ last_height = 0 /\ scroll_count = 0
    /\ cycles = 0 /\ readings = <<>>
    /\ note_errors = {}
    /\ page = <<>> /\ notes_dict = EmptyDict
    /\ places = <<>> /\ df = DataFrame(<<>>) /\ sink = None
    /\ result = InitialResult /\ returned = None

NextNotes ==
    \/ ExtractNotes(NotePages) \/ PageSource(NotePages) \/ ParseListings
    \/ MakeDataFrame

SpecNotes == InitNotes /\ [][NextNotes]_vars

(***************************************************************************)
(* Properties.                                                             *)
(***************************************************************************)
Done == pc = "done"
\* The run reached its end with no exception caught.
DoneClean == pc = "done" /\ exc = "none"
Outcome0 == Val(returned)

\* An item that parse_listings can name: its block does not raise and its
\* name element has a non-blank text.
ItemName(c) == Strip(Val(NameElem(c)))
IsNamedItem(c) ==
    c.fault \notin ParseFaults /\ NameElem(c) # None /\ ItemName(c) # <<>>
NamedItems(pg) == SelectSeq(pg, IsNamedItem)
ItemNames(pg) == [i \in 1..Len(NamedItems(pg)) |-> Some(ItemName(NamedItems(pg)[i]))]
NamesOf(recs) == [i \in 1..Len(recs) |-> recs[i].place]

\* C1 (as stated): the output collection has no two records with an equal
\* name; of items sharing a name only the first is kept.
C1_NoTwoRecordsShareAName ==
    \A i, j \in 1..Len(result.data) :
        i < j => result.data[i].place # result.data[j].place

\* C1 (amended): a run that ends without an exception returns one record
\* per named item, duplicates included, in page order: the names of the
\* records are the names of the named items, one for one.
C1_OneRecordPerNamedItem ==
    DoneClean => /\ NamesOf(Outcome0.data) = ItemNames(page)
                 /\ Outcome0.count = Len(NamedItems(page))

\* Three named items, the first and the third with the same name, and
\* three records returned.
C1_Witness ==
    /\ DoneClean
    /\ Len(page) = 3 /\ \A i \in 1..3 : IsNamedItem(page[i])
    /\ ItemName(page[1]) = ItemName(page[3])
    /\ ItemName(page[1]) # ItemName(page[2])
    /\ Len(Outcome0.data) = 3
    /\ Outcome0.data[1].place = Outcome0.data[3].place

\* The loop left because a reading equalled the one before it (the break
\* of line 120), not because the cap was reached.
StoppedStable == pc = "scroll_exit" /\ scroll_count < max_scrolls
LastReadingsEqual(n) ==
    /\ Len(readings) >= n
    /\ \A i \in (Len(readings) - n + 1)..Len(readings) :
          readings[i] = readings[Len(readings)]
ClaimedMetric == <<10, 20, 30, 30, 30, 30>>
IsPrefix(a, b) == Len(a) <= Len(b) /\ SubSeq(b, 1, Len(a)) = a

\* C2 (as stated): stability is declared only after 3 consecutive unchanged
\* iterations (4 equal readings in a row); on the readings
\* [10,20,30,30,30,30] the loop is still running until all six are read.
C2_StopsAfterThreeUnchanged ==
    /\ StoppedStable => LastReadingsEqual(4)
    /\ (pc = "scroll_exit" /\ IsPrefix(readings, ClaimedMetric) /\ max_scrolls >= 6)
          => readings = ClaimedMetric

\* C2 (amended): the loop stops at the first reading that equals the one
\* before it: while it runs no two consecutive readings are equal, and when
\* it has declared stability only the last two are.  On the readings
\* 10, 20, 30, 30 (the first one taken before the loop) it stops in its
\* third iteration.
NoRepeatBefore(n) == \A i \in 1..(n - 1) : readings[i] # readings[i + 1]
C2_StopsAtFirstUnchanged ==
    /\ pc \in {"scroll_loop", "scroll_read"} => NoRepeatBefore(Len(readings))
    /\ StoppedStable => /\ LastReadingsEqual(2)
                        /\ NoRepeatBefore(Len(readings) - 1)
                        /\ cycles = Len(readings) - 1
    /\ (pc \in {"scroll_loop", "scroll_read", "scroll_exit"}
          /\ readings = <<10, 20, 30, 30>>)
          => StoppedStable /\ cycles = 3

C2_Witness ==
    StoppedStable /\ readings = <<10, 20, 30, 30>> /\ max_scrolls >= 6

\* C3 (as stated): when the readiness wait times out the returned outcome
\* is a failure with no records, and the browser is closed.
C3_TimeoutFailsTheRun ==
    (Done /\ "timeout" \in warnings)
        => ~Outcome0.success /\ Outcome0.data = <<>> /\ driver = "closed"

\* C3 (amended): a readiness timeout is caught: the run goes on to the
\* scrolling, the timeout is never the exception of the run, and unless a
\* later step raises the outcome is a success counting the named items of
\* the page; the browser is closed in either case.
C3_TimeoutIsOnlyAWarning ==
    "timeout" \in warnings =>
        /\ pc # "wait" /\ exc # "wait"
        /\ Done => driver = "closed" /\ quits = 1
        /\ DoneClean => /\ Outcome0.success
                        /\ Outcome0.count = Len(NamedItems(page))
                        /\ Len(Outcome0.data) = Outcome0.count

C3_Witness ==
    DoneClean /\ "timeout" \in warnings /\ Outcome0.success /\ driver = "closed"

\* C4: a browser that was acquired is released exactly once, before the
\* return, on every path; it is never used once released; when the
\* acquisition fails nothing is released and a failure is returned.
C4_ReleasedExactlyOnce ==
    /\ quits <= 1
    /\ ~usedAfterQuit
    /\ driver = "closed" <=> quits = 1
    /\ pc \in {"return", "done"} =>
          \/ exc = "setup" /\ driver = "none" /\ quits = 0
          \/ exc # "setup" /\ driver = "closed" /\ quits = 1
    /\ (Done /\ exc = "setup") =>
          ~Outcome0.success /\ Outcome0.message.kind = "error"

\* A run that failed while writing the output, its browser closed.
C4_Witness ==
    Done /\ exc = "save" /\ driver = "closed" /\ quits = 1 /\ ~Outcome0.success

\* C5: the returned outcome has one of two shapes: a success with its
\* records, their count and no error message, or a failure with no
\* records, a count of 0 and the exception's message.
SuccessShape(r) ==
    /\ r.success /\ r.message.kind = "scraped"
    /\ r.count = Len(r.data) /\ r.data = ToDict(DataFrame(places))
FailureShape(r) ==
    /\ ~r.success /\ r.message.kind = "error" /\ r.message.text = exc
    /\ r.count = 0 /\ r.data = <<>>
C5_OutcomeIsAllOrNothing ==
    Done => SuccessShape(Outcome0) \/ FailureShape(Outcome0)

\* parse_listings has returned.
Parsed ==
    \/ pc \in {"dataframe", "save", "publish", "data"}
    \/ pc \in {"except", "finally", "return", "done"} /\ exc \in {"none", "save", "to_dict"}
\* The parsing of the container raises (caught at lines 332-334).
Raises(c) == c.fault \in ParseFaults
Quiet(c) == ~Raises(c)
\* The reading of the container's note raised in the note pass (caught at
\* lines 204-206).
NoteRaised(c) == c \in note_errors
Unfailing(c) == Quiet(c) /\ ~NoteRaised(c)

\* C6 (as stated): an item for which an exception was raised, in the note
\* pass or in the parsing, contributes no record; the records are those of
\* the other items, in page order, and the run ends in a success with them.
C6_AnyFailingItemGivesNoRecord ==
    /\ Parsed => places = parse_listings(SelectSeq(page, Unfailing), notes_dict, City)
    /\ DoneClean => /\ Outcome0.success
                    /\ NamesOf(Outcome0.data) = ItemNames(SelectSeq(page, Unfailing))

\* The DOM with every note whose reading raises replaced by an empty one.
WithoutRaisingNotes(dom) ==
    [k \in 1..Len(dom) |->
        IF dom[k].fault = "stale"
        THEN [dom[k] EXCEPT !.note = Some(<<>>), !.fault = "none"]
        ELSE dom[k]]
\* The note pass on the DOM lost the raising notes and nothing else.
NotePassConfined(dom) ==
    /\ note_errors = NoteErrors(dom)
    /\ notes_dict = extract_notes_from_page(WithoutRaisingNotes(dom))

\* C6: the two loops confine an exception differently.  One raised while an
\* item is parsed is confined to the item: the places are those of the page
\* without the raising items, nothing of a raising item among them.  One
\* raised while a note is read in the note pass is confined to the note: the
\* dictionary is that of a DOM whose raising notes are empty, and the item
\* of such a note, when it is parsed, still gives its record.  The run ends
\* in a success with the places.  (pc = "dataframe": parse_listings has just
\* returned; no later step assigns page, notes_dict or places.)
C6_ItemFailureIsConfined ==
    /\ pc = "dataframe"
          => /\ places = parse_listings(SelectSeq(page, Quiet), notes_dict, City)
             /\ Len(places) <= Len(SelectSeq(page, Quiet))
             /\ Len(places) = Len(NamedItems(page))
             /\ \A i \in 1..Len(places) :
                   NoteRaised(NamedItems(page)[i])
                      => places[i].place = Some(ItemName(NamedItems(page)[i]))
    /\ pc = "source" => \E dom \in MainPages : NotePassConfined(dom)
    /\ DoneClean => /\ Outcome0.success
                    /\ Outcome0.data = ToDict(DataFrame(places))
                    /\ NamesOf(Outcome0.data) = ItemNames(SelectSeq(page, Quiet))

\* An item whose note raised in the note pass (another note was kept), an
\* item whose parsing raises, a named item: the first and the third are
\* returned, in order.
C6_Witness ==
    /\ DoneClean /\ Len(page) = 3
    /\ IsNamedItem(page[1]) /\ NoteRaised(page[1]) /\ notes_dict # EmptyDict
    /\ Raises(page[2]) /\ NameElem(page[2]) # None
    /\ IsNamedItem(page[3])
    /\ NamesOf(Outcome0.data) = <<Some(ItemName(page[1])), Some(ItemName(page[3]))>>

\* C7: the scrolling performs at most max_scrolls cycles whatever the
\* heights read; leaving the loop at the cap raises nothing, a warning is
\* printed and the run goes on to the extraction.
ScrollPcs == {"scroll_loop", "scroll_read", "scroll_exit"}
C7_ScrollingIsBounded ==
    /\ pc \in ScrollPcs => /\ cycles <= max_scrolls
                           /\ scroll_count <= cycles
                           /\ Len(readings) = IF pc = "scroll_read" THEN cycles
                                              ELSE cycles + 1
    /\ pc = "scroll_exit" => exc = "none"
    /\ "max_scrolls" \in warnings =>
          /\ pc \notin {"setup", "get", "wait", "scroll"} \cup ScrollPcs
          /\ exc # "scroll"
    /\ (pc = "source" /\ exc = "none") => page \in MainPages

\* The heights grew at every reading up to the cap.
C7_Witness ==
    /\ pc = "scroll_exit" /\ max_scrolls >= 3
    /\ scroll_count = max_scrolls /\ cycles = max_scrolls
    /\ NoRepeatBefore(Len(readings))

\* C8: every record has a non-empty name; an item without a name, or with
\* a blank one, gives no record whatever else it carries.
AllNamed(recs) == \A i \in 1..Len(recs) : Truthy(recs[i].place)
HasName(c) == NameElem(c) # None /\ ItemName(c) # <<>>
C8_EveryRecordIsNamed ==
    /\ AllNamed(places) /\ AllNamed(result.data) /\ AllNamed(ToDict(df))
    /\ Len(places) <= Len(SelectSeq(page, HasName))

\* A page with a nameless item that carries a link or a note, and fewer
\* records than items.
C8_Witness ==
    /\ DoneClean
    /\ \E i \in 1..Len(page) :
          ~HasName(page[i]) /\ (page[i].href # None \/ page[i].note # None)
    /\ Len(Outcome0.data) >= 1 /\ Len(Outcome0.data) < Len(page)

\* The one container of a page of SpecParse, once parsed, and its record.
ParsedOne == pc # "parse" /\ Len(page) = 1 /\ Len(places) = 1
Item == page[1]
Rec == places[1]
\* The detail fields a record has set.
FieldsSet(pd) == {f \in {"rating", "category", "address"} : pd[f] # None}
\* A field the record may or may not have a key for.
Field(pd, f) == IF f \in DOMAIN pd THEN pd[f] ELSE None
Only(d) == ParsedOne /\ Item.details = d /\ Item.spans = <<>>
\* The record of the item with its i-th detail text removed.
WithoutDetail(c, i) ==
    [c EXCEPT !.details = SubSeq(c.details, 1, i - 1)
                          \o SubSeq(c.details, i + 1, Len(c.details))]
places_without(i) == parse_listings(<<WithoutDetail(Item, i)>>, notes_dict, City)[1]
Text45 == <<"4",".","5">>
Text123 == <<"1","2","3">>

\* C9 (as stated): "4.5(123)" gives rating 4.5 and review_count 123, "$$"
\* gives price_range "$$", "Italian Restaurant" the category, "123 Main St,
\* Springfield" the address, and a text shorter than 2 characters nothing.
C9_SpecDecisionList ==
    /\ Only(<<FragRating>>) => /\ Rec.rating = Some(Text45)
                               /\ Field(Rec, "review_count") = Some(Text123)
    /\ Only(<<FragPrice>>) => Field(Rec, "price_range") = Some(FragPrice)
    /\ Only(<<FragCategory>>) => Rec.category = Some(FragCategory)
    /\ Only(<<FragAddress>>) => Rec.address = Some(FragAddress)
    /\ Only(<<FragOne>>) => FieldsSet(Rec) = {}

\* C9 (amended): the rules are, in this order and the first match winning:
\* shorter than 2 characters: ignored; a leading number followed by '(': the
\* rating, which is that number (there is no review count, and a later
\* rating replaces an earlier one); no category yet, shorter than 30
\* characters, no digit and a venue keyword: the category; no address yet
\* and a digit or more than 20 characters: the address (the first ' · '
\* part with a digit and more than 5 characters, else the whole text);
\* anything else: ignored.  There is no star-label, price or address-label
\* rule: "$$" is ignored, "4.7 stars 2,340 Reviews" and "Nearby: 5 Elm
\* Street" are addresses.  A digit is any character str.isdigit() accepts,
\* a superscript digit included.  A text sets at most one field; a container left
\* without a category takes the first span text shorter than 25 characters
\* that has no digit.
C9_CodeDecisionList ==
    /\ Only(<<FragRating>>) =>
          /\ Rec.rating = Some(Text45) /\ FieldsSet(Rec) = {"rating"}
          /\ DOMAIN Rec = {ColumnOrder[i] : i \in 1..Len(ColumnOrder)}
    /\ Only(<<FragPrice>>) => FieldsSet(Rec) = {}
    /\ Only(<<FragCategory>>) =>
          Rec.category = Some(FragCategory) /\ FieldsSet(Rec) = {"category"}
    /\ Only(<<FragAddress>>) =>
          Rec.address = Some(FragAddress) /\ FieldsSet(Rec) = {"address"}
    /\ Only(<<FragOne>>) => FieldsSet(Rec) = {}
    /\ Only(<<FragStars>>) =>
          Rec.address = Some(FragStars) /\ FieldsSet(Rec) = {"address"}
    /\ Only(<<FragNearby>>) => Rec.address = Some(FragNearby)
    /\ Only(<<FragCafeDot>>) =>
          /\ Rec.address = Some(<<"1","2"," ","O","a","k"," ","A","v","e","n","u","e">>)
          /\ FieldsSet(Rec) = {"address"}
    /\ Only(<<FragLong>>) => Rec.address = Some(FragLong)
    /\ Only(<<FragClosed>>) => FieldsSet(Rec) = {}
    /\ Only(<<FragCategory, FragShop>>) =>
          Rec.category = Some(FragCategory) /\ FieldsSet(Rec) = {"category"}
    /\ Only(<<FragShop, FragCategory>>) =>
          Rec.category = Some(Strip(FragShop)) /\ FieldsSet(Rec) = {"category"}
    /\ Only(<<FragAddress, FragNearby>>) => Rec.address = Some(FragAddress)
    /\ Only(<<FragRating, FragSpaced>>) => Rec.rating = Some(<<"3">>)
    /\ Only(<<FragSquare>>) =>
          Rec.address = Some(FragSquare) /\ FieldsSet(Rec) = {"address"}
    /\ Only(<<FragNbsp>>) =>
          Rec.rating = Some(<<"2">>) /\ FieldsSet(Rec) = {"rating"}
    /\ (ParsedOne /\ Item.spans = <<>>) =>
          /\ Cardinality(FieldsSet(Rec)) <= Len(Item.details)
          /\ Rec.rating # None =>
                \E i \in 1..Len(Item.details) :
                    Rec.rating = Some(RatingMatch(Strip(Item.details[i])))
          /\ \A i \in 1..Len(Item.details) :
                Len(Strip(Item.details[i])) < MinTextLen
                    => FieldsSet(Rec) = FieldsSet(places_without(i))
    /\ (ParsedOne /\ Item.spans # <<>> /\ Item.details = <<FragRating>>) =>
          Rec.category = Some(FragClosed)

C9_Witness == Only(<<FragRating>>) /\ Rec.rating = Some(Text45)

\* The records of the output: df.to_dict('records').
OutputRecords == ToDict(df)
\* C10: in every output record the latitude and the longitude are both set
\* or both unset, whatever the link of the item; without a link, and with
\* an empty one, both are unset.
C10_CoordinatesGoTogether ==
    /\ \A i \in 1..Len(places) : (places[i].lat = None) <=> (places[i].lng = None)
    /\ \A i \in 1..Len(OutputRecords) :
          /\ (OutputRecords[i].lat = None) <=> (OutputRecords[i].lng = None)
          /\ ~Truthy(OutputRecords[i].url) => OutputRecords[i].lat = None
          /\ OutputRecords[i].url = page[i].href

\* An output record with both coordinates, taken from the '@' segment of
\* a place URL.
C10_Witness ==
    /\ pc = "save" /\ Len(OutputRecords) = 1
    /\ page[1].href = Some(UrlPlace)
    /\ OutputRecords[1].lat = Some(<<"1",".","3","0","5","9","1","8","7">>)
    /\ OutputRecords[1].lng = Some(<<"1","0","3",".","8","2","9","3","2","4","6">>)

\* The note written inside an item's own container: its stripped text, or
\* none when the container has no note field or a blank one.
ItemNote(c) ==
    IF c.note # None /\ Strip(Val(c.note)) # <<>> THEN Some(Strip(Val(c.note)))
    ELSE None
\* The i-th record of `places` comes from the i-th named item of the page.
RecordItem(i) == NamedItems(page)[i]

\* C11: every emitted record's note is the note of that same list item:
\* an item without a note gives a record without one, and the note found
\* inside an item is never replaced by the note of a different item, also
\* when two items have the same display name.
C11_NoteIsTheItemsOwn ==
    Parsed => /\ Len(places) = Len(NamedItems(page))
              /\ \A i \in 1..Len(places) : places[i].note = ItemNote(RecordItem(i))
====
